---------------------------- MODULE Spec2Model ----------------------------
(***************************************************************************)
(* A model of homebrew-pypi-poet (src/poet/poet.py).                       *)
(*                                                                         *)
(* Python values are modelled with their type where the code's behaviour   *)
(* depends on it: a str is Str(s), a pkg_resources.Requirement is Req(..). *)
(* The installed-package registry (pkg_resources.working_set) and the      *)
(* package index (pypi_simple) are read-only snapshots chosen in Init.     *)
(***************************************************************************)
EXTENDS Integers, Sequences, FiniteSets, TLC

VARIABLES
    working_set,   \* installed distributions: key -> [version, dep_map]
    package,       \* the Requirement recursive_dependencies was called with
    discovered,    \* recursive_dependencies.discovered
    visited,       \* recursive_dependencies.visited (Requirement identities)
    stack,         \* call stack of walk: per frame, the reqs its for-loop has left
    lookups,       \* history: every get_distribution(package).requires(extras) call
    pkg_deps,      \* the value recursive_dependencies returned
    pypi,          \* the package index: name -> the files get_project_files lists
    research_call, \* arguments of the research_package call under study
    research_ret,  \* what that call returned
    graphs,        \* argument of the merge_graphs call under study
    merge_ret,     \* what that call returned
    args,          \* the argparse namespace of main
    mode,          \* which branch of main is running
    roots,         \* the package specifiers make_graph has still to be called with
    nodes,         \* merge_graphs.result while the graphs are consumed, then its value
    warned,        \* every warnings.warn call of the run, in order
    stdout,        \* what main handed to the templates and printed
    exit_code,     \* exit status of the process
    pc             \* position of the program

envVars == <<working_set, pypi>>

walkVars == <<package, discovered, visited, stack, lookups, pkg_deps>>

researchVars == <<research_call, research_ret>>

mergeVars == <<graphs, merge_ret>>

mainVars == <<args, mode, roots, nodes, warned, stdout, exit_code>>

vars == <<envVars, walkVars, researchVars, mergeVars, mainVars, pc>>

-----------------------------------------------------------------------------
(* The finite universe of names.                                           *)

Keys == {"bar", "foo", "pip", "requests"}

ExtraNames == {"security"}

\* str.lower() on the names of the universe
Lower(s) == IF s = "Foo" THEN "foo" ELSE s

\* the order of str comparison on the lowercase names
Rank(s) == CASE s = "argparse" -> 0
             [] s = "bar" -> 1
             [] s = "foo" -> 2
             [] s = "pip" -> 3
             [] s = "requests" -> 4
             [] s = "setuptools" -> 5
             [] OTHER -> 6

RECURSIVE sorted(_)
sorted(S) ==
    IF S = {} THEN <<>>
    ELSE LET m == CHOOSE x \in S : \A y \in S : Rank(x) <= Rank(y)
         IN  <<m>> \o sorted(S \ {m})

Range(s) == {s[i] : i \in DOMAIN s}

-----------------------------------------------------------------------------
(* Python values.                                                          *)

Str(s) == [type |-> "str", value |-> s]

Req(name, extras) == [type |-> "Requirement", project_name |-> name, extras |-> extras]

\* Requirement.key: the lowercase project name
ReqKey(r) == Lower(r.project_name)

\* Requirement.hashCmp: what __hash__ and __eq__ of a Requirement compare
hashCmp(r) == <<ReqKey(r), r.extras>>

\* Requirement.__eq__(other), as evaluated by `package == "requests"` and by
\* `package in visited`: never equal to a value that is not a Requirement
ReqEq(r, other) ==
    IF other.type = "Requirement" THEN hashCmp(r) = hashCmp(other) ELSE FALSE

-----------------------------------------------------------------------------
(* The installed-package registry.                                         *)

DepMapKeys == {""} \cup ExtraNames

\* pkg_resources.get_distribution(package) raises DistributionNotFound
DistributionNotFound(ws, r) == ReqKey(r) \notin DOMAIN ws

\* a requires() that drops the requirements declared under the extras
requires_NoExtras(dist, extras) == dist.dep_map[""]

\* Distribution.requires(extras): the unconditional requirements plus those
\* declared under each requested extra
requires(dist, extras) ==
    dist.dep_map[""] \cup UNION {dist.dep_map[e] : e \in extras}

-----------------------------------------------------------------------------
(* recursive_dependencies                                                  *)

\* lines 61-63: the extras walk passes to requires()
WalkExtras(r) ==
    IF ReqEq(r, Str("requests")) THEN r.extras \cup {"security"} ELSE r.extras

\* line 58: package in visited
InVisited(r, vis) == \E v \in vis : ReqEq(r, v)

\* a visited.add that records nothing
VisitedAdd_Forget(r, vis) == vis

\* line 60: visited.add(package)
VisitedAdd(r, vis) == vis \cup {r}

\* cap on the depth of the recursion of walk; the walk stays below it (C2)
MaxDepth == 8

Top == stack[Len(stack)]

SetTop(rest) == [stack EXCEPT ![Len(stack)] = rest]

\* walk(req) returns at line 59: already visited
WalkVisited ==
    /\ pc = "walk"
    /\ stack # <<>>
    /\ \E r \in Top :
        /\ InVisited(r, visited)
        /\ stack' = SetTop(Top \ {r})
    /\ UNCHANGED <<envVars, package, discovered, visited, lookups, pkg_deps,
                   researchVars, mergeVars, mainVars, pc>>

\* walk(req) returns at line 67: the distribution is not installed
WalkNotFound ==
    /\ pc = "walk"
    /\ stack # <<>>
    /\ \E r \in Top :
        /\ ~InVisited(r, visited)
        /\ DistributionNotFound(working_set, r)
        /\ visited' = VisitedAdd(r, visited)
        /\ stack' = SetTop(Top \ {r})
    /\ UNCHANGED <<envVars, package, discovered, lookups, pkg_deps,
                   researchVars, mergeVars, mainVars, pc>>

\* walk(req) reaches lines 68-70: record the names, then loop over reqs
WalkExpand ==
    /\ pc = "walk"
    /\ stack # <<>>
    /\ Len(stack) < MaxDepth
    /\ \E r \in Top :
        /\ ~InVisited(r, visited)
        /\ ~DistributionNotFound(working_set, r)
        /\ LET extras == WalkExtras(r)
               reqs == requires(working_set[ReqKey(r)], extras)
           IN  /\ visited' = VisitedAdd(r, visited)
               /\ lookups' = Append(lookups, [req |-> r, extras |-> extras])
               /\ discovered' = discovered \cup {Lower(q.project_name) : q \in reqs}
               /\ stack' = Append(SetTop(Top \ {r}), reqs)
    /\ UNCHANGED <<envVars, package, pkg_deps, researchVars, mergeVars, mainVars, pc>>

\* the for-loop of a walk frame is exhausted: walk returns to its caller
WalkReturn ==
    /\ pc = "walk"
    /\ stack # <<>>
    /\ Top = {}
    /\ stack' = SubSeq(stack, 1, Len(stack) - 1)
    /\ UNCHANGED <<envVars, package, discovered, visited, lookups, pkg_deps,
                   researchVars, mergeVars, mainVars, pc>>

\* line 73: return sorted(discovered)
WalkFinish ==
    /\ pc = "walk"
    /\ stack = <<>>
    /\ pkg_deps' = sorted(discovered)
    /\ pc' = "walked"
    /\ UNCHANGED <<envVars, package, discovered, visited, stack, lookups,
                   researchVars, mergeVars, mainVars>>

-----------------------------------------------------------------------------
(* Python values of the package researcher.                                *)

None == [type |-> "NoneType"]

\* truth value of an optional version str: None and the empty str are false
Truthy(v) == v.type = "str" /\ v.value # <<>>

Warning(category, message) == [category |-> category, message |-> message]

\* a URL is kept as what urlparse splits it into: the part before '#' and the fragment
Url(path, fragment) == [path |-> path, fragment |-> fragment]

\* the str ""
EmptyUrl == Url(<<>>, "")

\* util.transform_url(url, fragment=""): the URL with its fragment replaced
transform_url(url, fragment) == [url EXCEPT !.fragment = fragment]

\* util.compute_sha256_sum(url): the digest of the body served at url
compute_sha256_sum(url) == IF url.path = <<>> THEN "sha256()" ELSE "sha256(body)"

-----------------------------------------------------------------------------
(* Versions: a version str is its sequence of characters.                  *)

V1_0 == <<"1", ".", "0">>

V1_2 == <<"1", ".", "2">>

V1_10 == <<"1", ".", "1", "0">>

V1_0_0 == <<"1", ".", "0", ".", "0">>

V2_0 == <<"2", ".", "0">>

DigitVal(c) == CASE c = "0" -> 0 [] c = "1" -> 1 [] c = "2" -> 2 [] c = "3" -> 3
                 [] c = "4" -> 4 [] c = "5" -> 5 [] c = "6" -> 6 [] c = "7" -> 7
                 [] c = "8" -> 8 [] c = "9" -> 9

\* ord(c) of the characters a version is written with
Ord(c) == IF c = "." THEN 46 ELSE 48 + DigitVal(c)

\* s.split(".")
RECURSIVE Split(_)
Split(s) ==
    IF \A i \in DOMAIN s : s[i] # "." THEN <<s>>
    ELSE LET d == CHOOSE i \in DOMAIN s : s[i] = "." /\ \A j \in 1..(i - 1) : s[j] # "."
         IN  <<SubSeq(s, 1, d - 1)>> \o Split(SubSeq(s, d + 1, Len(s)))

\* int(s) of a run of digits
RECURSIVE ParseInt(_)
ParseInt(s) ==
    IF s = <<>> THEN 0
    ELSE 10 * ParseInt(SubSeq(s, 1, Len(s) - 1)) + DigitVal(s[Len(s)])

\* the release segment of a version: its dot-separated numbers
Release(v) == [i \in DOMAIN Split(v) |-> ParseInt(Split(v)[i])]

RECURSIVE StripZeros(_)
StripZeros(t) ==
    IF t # <<>> /\ t[Len(t)] = 0 THEN StripZeros(SubSeq(t, 1, Len(t) - 1)) ELSE t

\* a parse_version that keeps the text of the version: comparison by characters
parse_version_Text(v) == [i \in DOMAIN v |-> Ord(v[i])]

\* pkg_resources.parse_version(v): the comparison key of a release version,
\* its numbers without the trailing zeros
parse_version(v) == StripZeros(Release(v))

\* tuple comparison a < b
RECURSIVE TupleLt(_, _)
TupleLt(a, b) ==
    IF b = <<>> THEN FALSE
    ELSE IF a = <<>> THEN TRUE
    ELSE IF a[1] # b[1] THEN a[1] < b[1]
    ELSE TupleLt(Tail(a), Tail(b))

-----------------------------------------------------------------------------
(* research_package                                                        *)

\* _find_latest_version: max(distributions, key=parse_version), the first of
\* the maximal ones
find_latest_version(distributions) ==
    LET key(i) == parse_version(distributions[i].version)
        best == CHOOSE i \in DOMAIN distributions :
                    /\ \A j \in DOMAIN distributions : ~TupleLt(key(i), key(j))
                    /\ \A j \in 1..(i - 1) : TupleLt(key(j), key(i))
    IN  distributions[best]

\* _find_exact_version: the first distribution of that version, or None
find_exact_version(version, distributions) ==
    LET parsed_version == parse_version(version)
        hits == {i \in DOMAIN distributions :
                    parse_version(distributions[i].version) = parsed_version}
    IN  IF hits = {} THEN None
        ELSE distributions[CHOOSE i \in hits : \A j \in hits : i <= j]

\* lines 77-82
Placeholder(name) ==
    [name |-> name, url |-> EmptyUrl, checksum |-> "", checksum_type |-> "sha256"]

\* lines 109-122, for the distribution chosen
Researched(name, dist, warnings, calls) ==
    LET haveDigest == "sha256" \in DOMAIN dist.digests
    IN  [raised |-> "",
         package |-> [Placeholder(name) EXCEPT
                        !.url = transform_url(dist.url, ""),
                        !.checksum = IF haveDigest THEN dist.digests["sha256"]
                                     ELSE compute_sha256_sum(dist.url)],
         matching_distribution |-> dist,
         warnings |-> warnings,
         calls |-> calls \cup (IF haveDigest THEN {} ELSE {"compute_sha256_sum"})]

\* a research_package that takes any distribution for a source distribution
IsSdist_Any(dist) == TRUE

\* line 88
IsSdist(dist) == dist.package_type = "sdist"

\* research_package(index_url, name, version): the package it returns, the
\* warnings it emits and the helpers it calls
research_package(index, name, version) ==
    LET distributions == IF name \in DOMAIN index THEN index[name] ELSE <<>>
        source_distributions == SelectSeq(distributions, IsSdist)
        exact == IF Truthy(version)
                 THEN find_exact_version(version.value, source_distributions)
                 ELSE None
        missed == Truthy(version) /\ exact = None
        warnings ==
            IF missed
            THEN <<Warning("PackageVersionNotFoundWarning",
                           <<"Could not find an exact version match", name, version.value>>)>>
            ELSE <<>>
        calls == IF Truthy(version) THEN {"_find_exact_version"} ELSE {}
    IN  IF source_distributions = <<>>
        THEN [raised |-> "",
              package |-> Placeholder(name),
              matching_distribution |-> None,
              warnings |-> <<Warning("UserWarning", <<"No sdist found for", name>>)>>,
              calls |-> {}]
        ELSE IF exact # None
        THEN Researched(name, exact, warnings, calls)
        ELSE Researched(name, find_latest_version(source_distributions), warnings,
                        calls \cup {"_find_latest_version"})

-----------------------------------------------------------------------------
(* Dicts: a dict or OrderedDict is the sequence of its items <<key, value>>, *)
(* in iteration order.                                                     *)

DictKeys(d) == {d[i][1] : i \in DOMAIN d}

DictGet(d, k) == d[CHOOSE i \in DOMAIN d : d[i][1] = k][2]

DictValues(d) == [i \in DOMAIN d |-> d[i][2]]

\* OrderedDict((k, d[k]) for k in sorted(d.keys()))
SortedDict(d) ==
    LET ks == sorted(DictKeys(d))
    IN  [i \in DOMAIN ks |-> <<ks[i], DictGet(d, ks[i])>>]

-----------------------------------------------------------------------------
(* make_graph                                                              *)

\* line 161
ignore == {"argparse", "pip", "setuptools", "wsgiref"}

\* line 164: key in ignore
Ignored(key) == key \in ignore

\* lines 167-174: the installed version of a name, or None with a warning
InstalledVersion(ws, name) ==
    IF name \in DOMAIN ws THEN Str(ws[name].version) ELSE None

\* make_graph, lines 164-182, from the value of recursive_dependencies on:
\* the graph it returns and the warnings it emits
make_graph(index, ws, deps) ==
    LET dependencies == SelectSeq(deps, LAMBDA key : ~Ignored(key))
        missing == SelectSeq(dependencies, LAMBDA key : key \notin DOMAIN ws)
        data == [i \in DOMAIN dependencies |->
                    research_package(index, dependencies[i],
                                     InstalledVersion(ws, dependencies[i]))]
        node(i) == [version |-> InstalledVersion(ws, dependencies[i]),
                    name |-> data[i].package.name,
                    url |-> data[i].package.url,
                    checksum |-> data[i].package.checksum,
                    checksum_type |-> data[i].package.checksum_type]
        RECURSIVE Warnings(_)
        Warnings(i) == IF i > Len(dependencies) THEN <<>>
                       ELSE data[i].warnings \o Warnings(i + 1)
    IN  [value |-> SortedDict([i \in DOMAIN dependencies |-> <<dependencies[i], node(i)>>]),
         warnings |->
            [i \in DOMAIN missing |->
                Warning("PackageNotInstalledWarning", <<missing[i], "is not installed">>)]
            \o Warnings(1)]

-----------------------------------------------------------------------------
(* merge_graphs                                                            *)

\* line 216: the state of merge_graphs before the first graph
MergeStart == [raised |-> "", result |-> <<>>, warnings |-> <<>>]

\* lines 224-228: the message is built by "{l.name} {l.version} ...".format(
\* l=result[key], r=g[key]); a replacement field "{l.name}" is the attribute
\* name of l, and l is a dict, which has no such attribute
ConflictMessage(l, r) == [raised |-> "AttributeError", value |-> <<>>]

\* a merge step where the later graph's node replaces the recorded one
MergeKey_LastWins(acc, key, value) ==
    IF acc.raised # "" THEN acc
    ELSE [acc EXCEPT !.result =
            SelectSeq(acc.result, LAMBDA item : item[1] # key) \o <<<<key, value>>>>]

\* lines 219-228: one iteration of the inner loop
MergeKey(acc, key, value) ==
    IF acc.raised # "" THEN acc
    ELSE IF key \notin DictKeys(acc.result)
    THEN [acc EXCEPT !.result = Append(acc.result, <<key, value>>)]
    ELSE IF DictGet(acc.result, key) = value
    THEN acc
    ELSE LET message == ConflictMessage(DictGet(acc.result, key), value)
         IN  IF message.raised # ""
             THEN [acc EXCEPT !.raised = message.raised]
             ELSE [acc EXCEPT !.warnings =
                     Append(acc.warnings,
                            Warning("ConflictingDependencyWarning", message.value))]

\* lines 218-228: the inner loop over one graph
RECURSIVE MergeGraph(_, _)
MergeGraph(acc, g) ==
    IF g = <<>> THEN acc
    ELSE MergeGraph(MergeKey(acc, g[1][1], g[1][2]), Tail(g))

RECURSIVE MergeAll(_, _)
MergeAll(acc, gs) ==
    IF gs = <<>> THEN acc ELSE MergeAll(MergeGraph(acc, gs[1]), Tail(gs))

\* line 229, or the exception that ended the loops
MergeReturn(acc) ==
    IF acc.raised # ""
    THEN [raised |-> acc.raised, value |-> None, warnings |-> acc.warnings]
    ELSE [raised |-> "", value |-> SortedDict(acc.result), warnings |-> acc.warnings]

merge_graphs(gs) == MergeReturn(MergeAll(MergeStart, gs))

-----------------------------------------------------------------------------
(* main, formula_for and resources_for                                     *)

List(items) == [type |-> "list", value |-> items]

\* truth value of an optional package specifier
TruthyName(v) == v.type = "str" /\ v.value # ""

\* the options of the mutually exclusive group (line 236) given on the command line
GroupGiven == {o \in {"single", "formula", "resources"} : args[o] # None}

\* parse_args returned a namespace: no -V, no error
Parsed == ~args.version /\ Cardinality(GroupGiven) <= 1

TakesSingleArgument ==
    (TruthyName(args.formula) \/ TruthyName(args.resources)) /\ TruthyName(args.package)

\* a check that lets --also pass with --single
AlsoWithSingle_Never == FALSE

\* line 269: args.also and args.single
AlsoWithSingle == args.also # <<>> /\ args.single # None

\* line 284: args.resources or args.package
ResourcesPackage == IF TruthyName(args.resources) THEN args.resources ELSE args.package

Exit(code) ==
    /\ exit_code' = code
    /\ pc' = "exit"

\* line 256: the version action prints the version and exits with status 0
ArgparseVersion ==
    /\ pc = "main"
    /\ args.version
    /\ stdout' = <<[template |-> "version"]>>
    /\ Exit(0)
    /\ UNCHANGED <<envVars, walkVars, researchVars, mergeVars, args, mode, roots, nodes, warned>>

\* line 261: parse_args meets a second option of the mutually exclusive
\* group: parser.error prints the usage and exits with status 2
ArgparseError ==
    /\ pc = "main"
    /\ Cardinality(GroupGiven) >= 2
    /\ Exit(2)
    /\ UNCHANGED <<envVars, walkVars, researchVars, mergeVars, args, mode, roots, nodes,
                   warned, stdout>>

\* lines 263-267
UsageTakesSingleArgument ==
    /\ pc = "main"
    /\ Parsed
    /\ TakesSingleArgument
    /\ Exit(1)
    /\ UNCHANGED <<envVars, walkVars, researchVars, mergeVars, args, mode, roots, nodes,
                   warned, stdout>>

\* lines 269-273
UsageAlsoWithSingle ==
    /\ pc = "main"
    /\ Parsed
    /\ ~TakesSingleArgument
    /\ AlsoWithSingle
    /\ Exit(1)
    /\ UNCHANGED <<envVars, walkVars, researchVars, mergeVars, args, mode, roots, nodes,
                   warned, stdout>>

\* lines 275-276 with 186-191: formula_for starts to consume the graphs
MainFormula ==
    /\ pc = "main"
    /\ Parsed
    /\ ~TakesSingleArgument
    /\ ~AlsoWithSingle
    /\ TruthyName(args.formula)
    /\ mode' = "formula"
    /\ roots' = <<args.formula.value>> \o args.also
    /\ nodes' = MergeStart
    /\ pc' = "graphs"
    /\ UNCHANGED <<envVars, walkVars, researchVars, mergeVars, args, warned, stdout, exit_code>>

\* lines 277-282: one resource stanza per package, without dependencies
MainSingle ==
    /\ pc = "main"
    /\ Parsed
    /\ ~TakesSingleArgument
    /\ ~AlsoWithSingle
    /\ ~TruthyName(args.formula)
    /\ args.single # None
    /\ LET data == [i \in DOMAIN args.single.value |->
                        research_package(pypi, args.single.value[i], None)]
           RECURSIVE Warnings(_)
           Warnings(i) == IF i > Len(data) THEN <<>>
                          ELSE data[i].warnings \o Warnings(i + 1)
       IN  /\ stdout' = [i \in DOMAIN data |->
                            [template |-> "RESOURCE", resource |-> data[i].package]]
           /\ warned' = warned \o Warnings(1)
    /\ mode' = "single"
    /\ Exit(0)
    /\ UNCHANGED <<envVars, walkVars, researchVars, mergeVars, args, roots, nodes>>

\* lines 284-287
UsageNoPackage ==
    /\ pc = "main"
    /\ Parsed
    /\ ~TakesSingleArgument
    /\ ~AlsoWithSingle
    /\ ~TruthyName(args.formula)
    /\ args.single = None
    /\ ~TruthyName(ResourcesPackage)
    /\ Exit(1)
    /\ UNCHANGED <<envVars, walkVars, researchVars, mergeVars, args, mode, roots, nodes,
                   warned, stdout>>

\* line 288 with 210: resources_for starts to consume the graphs
MainResources ==
    /\ pc = "main"
    /\ Parsed
    /\ ~TakesSingleArgument
    /\ ~AlsoWithSingle
    /\ ~TruthyName(args.formula)
    /\ args.single = None
    /\ TruthyName(ResourcesPackage)
    /\ mode' = "resources"
    /\ roots' = <<ResourcesPackage.value>> \o args.also
    /\ nodes' = MergeStart
    /\ pc' = "graphs"
    /\ UNCHANGED <<envVars, walkVars, researchVars, mergeVars, args, warned, stdout, exit_code>>

\* pkg_resources.Requirement.parse(pkg) of a bare project name
RequirementParse(pkg) == Req(pkg, {})

\* line 162: make_graph(index_url, p) for the next p calls recursive_dependencies
GraphStart ==
    /\ pc = "graphs"
    /\ roots # <<>>
    /\ package' = RequirementParse(Head(roots))
    /\ discovered' = {Lower(Head(roots))}
    /\ visited' = {}
    /\ stack' = <<{RequirementParse(Head(roots))}>>
    /\ lookups' = <<>>
    /\ pkg_deps' = <<>>
    /\ pc' = "walk"
    /\ UNCHANGED <<envVars, researchVars, mergeVars, mainVars>>

\* lines 164-182, then lines 218-228 for the graph make_graph returned; an
\* exception of merge_graphs ends the process with a traceback and status 1
GraphBuild ==
    /\ pc = "walked"
    /\ mode \in {"formula", "resources"}
    /\ LET g == make_graph(pypi, working_set, pkg_deps)
           acc == MergeGraph(nodes, g.value)
       IN  /\ nodes' = acc
           /\ warned' = warned \o g.warnings \o
                            SubSeq(acc.warnings, Len(nodes.warnings) + 1, Len(acc.warnings))
           /\ IF acc.raised # ""
              THEN /\ roots' = roots
                   /\ Exit(1)
              ELSE /\ roots' = Tail(roots)
                   /\ pc' = "graphs"
                   /\ UNCHANGED exit_code
    /\ UNCHANGED <<envVars, walkVars, researchVars, mergeVars, args, mode, stdout>>

\* a resource filter that compares the names as they are written
IsRoot_CaseSensitive(key, package_name) == key = package_name

\* line 193: key.lower() != package_name.lower(), negated
IsRoot(key, package_name) == Lower(key) = Lower(package_name)

\* lines 195-198: the key of the root node, when there is one
RootKey(merged, package_name) ==
    IF package_name \in DictKeys(merged) THEN package_name ELSE Lower(package_name)

\* lines 192-206: the root node is found and the formula rendered
FormulaRender ==
    /\ pc = "graphs"
    /\ roots = <<>>
    /\ mode = "formula"
    /\ LET merged == MergeReturn(nodes).value
           package_name == RequirementParse(args.formula.value).project_name
       IN  /\ RootKey(merged, package_name) \in DictKeys(merged)
           /\ nodes' = merged
           /\ stdout' = <<[template |-> "FORMULA",
                           package |-> DictGet(merged, RootKey(merged, package_name)),
                           resources |-> DictValues(SelectSeq(merged,
                                LAMBDA item : ~IsRoot(item[1], package_name)))]>>
    /\ Exit(0)
    /\ UNCHANGED <<envVars, walkVars, researchVars, mergeVars, args, mode, roots, warned>>

\* line 200: raise Exception("Could not find package ..."); the process ends
\* with a traceback and status 1
FormulaRaise ==
    /\ pc = "graphs"
    /\ roots = <<>>
    /\ mode = "formula"
    /\ LET merged == MergeReturn(nodes).value
           package_name == RequirementParse(args.formula.value).project_name
       IN  /\ RootKey(merged, package_name) \notin DictKeys(merged)
           /\ nodes' = merged
    /\ Exit(1)
    /\ UNCHANGED <<envVars, walkVars, researchVars, mergeVars, args, mode, roots, warned,
                   stdout>>

\* lines 210-212: every node of the merged graph is rendered
ResourcesRender ==
    /\ pc = "graphs"
    /\ roots = <<>>
    /\ mode = "resources"
    /\ LET merged == MergeReturn(nodes).value
       IN  /\ nodes' = merged
           /\ stdout' = [i \in DOMAIN merged |->
                            [template |-> "RESOURCE", resource |-> merged[i][2]]]
    /\ Exit(0)
    /\ UNCHANGED <<envVars, walkVars, researchVars, mergeVars, args, mode, roots, warned>>

-----------------------------------------------------------------------------
(* Values of the variables an operation under study does not use.          *)

IdleEnv == working_set = <<>> /\ pypi = <<>>

IdleWalk ==
    /\ package = None
    /\ discovered = {}
    /\ visited = {}
    /\ stack = <<>>
    /\ lookups = <<>>
    /\ pkg_deps = <<>>

IdleResearch == research_call = None /\ research_ret = None

IdleMerge == graphs = <<>> /\ merge_ret = None

IdleMain ==
    /\ args = None
    /\ mode = ""
    /\ roots = <<>>
    /\ nodes = None
    /\ warned = <<>>
    /\ stdout = <<>>
    /\ exit_code = -1

-----------------------------------------------------------------------------
(* Bounded inputs of the walk.                                             *)

MaxEdges == 2

DepReqs == {Req("bar", {}), Req("bar", {"security"}), Req("Foo", {}),
            Req("requests", {}), Req("pip", {})}

RootReqs == {Req("Foo", {}), Req("bar", {}), Req("requests", {}),
             Req("requests", {"security"})}

Edges == [src : {"bar", "foo", "requests"}, extra : DepMapKeys, req : DepReqs]

RECURSIVE AtMost(_, _)
AtMost(S, k) ==
    IF k = 0 THEN {{}}
    ELSE LET P == AtMost(S, k - 1)
         IN  P \cup {T \cup {e} : T \in P, e \in S}

\* the registry with the installed keys inst and the declared requirements E
Registry(inst, E) ==
    [k \in inst |->
        [version |-> V1_0,
         dep_map |-> [x \in DepMapKeys |->
                        {e.req : e \in {f \in E : f.src = k /\ f.extra = x}}]]]

Registries ==
    {Registry(inst, E) :
        <<inst, E>> \in {p \in (SUBSET Keys) \X AtMost(Edges, MaxEdges) :
                            \A e \in p[2] : e.src \in p[1]}}

\* lines 52-53 and 72: recursive_dependencies(root) up to its call of walk
WalkStart(ws, root) ==
    /\ working_set = ws
    /\ package = root
    /\ discovered = {Lower(root.project_name)}
    /\ visited = {}
    /\ stack = <<{root}>>
    /\ lookups = <<>>
    /\ pkg_deps = <<>>
    /\ pypi = <<>>
    /\ IdleResearch /\ IdleMerge /\ IdleMain
    /\ pc = "walk"

InitWalk == \E ws \in Registries, root \in RootReqs : WalkStart(ws, root)

NextWalk == WalkVisited \/ WalkNotFound \/ WalkExpand \/ WalkReturn \/ WalkFinish

SpecWalk == InitWalk /\ [][NextWalk]_vars

FairSpecWalk == SpecWalk /\ WF_vars(NextWalk)


-----------------------------------------------------------------------------
(* research_package on bounded indexes.                                    *)

MaxDists == 3

Dist(type, v, digests) ==
    [package_type |-> type, version |-> v,
     url |-> Url(<<type, v>>, "sha256=abc"), digests |-> digests]

NoDigests == <<>>

DistVersions == {V1_0, V1_2, V1_10, V1_0_0}

Dists ==
    {Dist("sdist", v, d) : v \in DistVersions, d \in {NoDigests, [sha256 |-> "abc"]}}
    \cup {Dist("bdist_wheel", v, [sha256 |-> "abc"]) : v \in DistVersions}

RECURSIVE SeqsUpTo(_, _)
SeqsUpTo(S, n) ==
    IF n = 0 THEN {<<>>}
    ELSE LET P == SeqsUpTo(S, n - 1)
         IN  P \cup {Append(q, x) : q \in {r \in P : Len(r) = n - 1}, x \in S}

VersionHints == {None, Str(<<>>), Str(V1_0), Str(V1_10), Str(V2_0)}

InitResearch ==
    /\ \E ds \in SeqsUpTo(Dists, MaxDists) : pypi = [n \in {"foo"} |-> ds]
    /\ \E v \in VersionHints : research_call = [name |-> "foo", version |-> v]
    /\ working_set = <<>>
    /\ research_ret = None
    /\ IdleWalk /\ IdleMerge /\ IdleMain
    /\ pc = "research"

Research ==
    /\ pc = "research"
    /\ research_ret' = research_package(pypi, research_call.name, research_call.version)
    /\ pc' = "researched"
    /\ UNCHANGED <<envVars, walkVars, research_call, mergeVars, mainVars>>

NextResearch == Research

SpecResearch == InitResearch /\ [][NextResearch]_vars

-----------------------------------------------------------------------------
(* merge_graphs on bounded graphs.                                         *)

MaxGraphs == 3

MergeNode(name, v) ==
    [version |-> Str(v), name |-> name, url |-> Url(<<"sdist", v>>, ""),
     checksum |-> "abc", checksum_type |-> "sha256"]

MergeItems == {<<k, MergeNode(k, v)>> : k \in {"bar", "foo"}, v \in {V1_0, V1_2}}

\* the dicts over two names, in either iteration order
MergeDicts ==
    {d \in SeqsUpTo(MergeItems, 2) : \A i, j \in DOMAIN d : d[i][1] = d[j][1] => i = j}

InitMerge ==
    /\ graphs \in SeqsUpTo(MergeDicts, MaxGraphs)
    /\ merge_ret = None
    /\ IdleEnv /\ IdleWalk /\ IdleResearch /\ IdleMain
    /\ pc = "merge"

Merge ==
    /\ pc = "merge"
    /\ merge_ret' = merge_graphs(graphs)
    /\ pc' = "merged"
    /\ UNCHANGED <<envVars, walkVars, researchVars, graphs, mainVars>>

NextMerge == Merge

SpecMerge == InitMerge /\ [][NextMerge]_vars

-----------------------------------------------------------------------------
(* main on bounded command lines, registries and one index.                *)

MaxAlso == 1

MaxMainEdges == 2

MainEdges == {[src |-> "foo", extra |-> "", req |-> Req("bar", {})],
              [src |-> "foo", extra |-> "", req |-> Req("pip", {})],
              [src |-> "bar", extra |-> "", req |-> Req("Foo", {})],
              [src |-> "pip", extra |-> "", req |-> Req("requests", {})]}

MainRegistries ==
    {Registry(inst, E) :
        <<inst, E>> \in {p \in {Keys, Keys \ {"requests"}} \X AtMost(MainEdges, MaxMainEdges) :
                            \A e \in p[2] : e.src \in p[1]}}

MainIndex ==
    [bar |-> <<Dist("bdist_wheel", V1_0, [sha256 |-> "abc"])>>,
     foo |-> <<Dist("sdist", V1_0_0, NoDigests), Dist("sdist", V1_10, [sha256 |-> "abc"])>>,
     pip |-> <<Dist("sdist", V1_2, [sha256 |-> "abc"])>>,
     requests |-> <<Dist("sdist", V1_0, [sha256 |-> "abc"])>>]

OptNames == {None, Str(""), Str("Foo"), Str("pip")}

ArgSets ==
    [single : {None, List(<<"bar">>), List(<<"bar", "foo">>)},
     formula : OptNames,
     resources : OptNames,
     also : SeqsUpTo({"bar", "requests"}, MaxAlso),
     package : OptNames,
     version : BOOLEAN]

InitMain ==
    /\ working_set \in MainRegistries
    /\ pypi = MainIndex
    /\ args \in ArgSets
    /\ mode = ""
    /\ roots = <<>>
    /\ nodes = None
    /\ warned = <<>>
    /\ stdout = <<>>
    /\ exit_code = -1
    /\ IdleWalk /\ IdleResearch /\ IdleMerge
    /\ pc = "main"

NextMain ==
    \/ ArgparseVersion \/ ArgparseError
    \/ UsageTakesSingleArgument \/ UsageAlsoWithSingle \/ UsageNoPackage
    \/ MainFormula \/ MainSingle \/ MainResources
    \/ GraphStart \/ WalkVisited \/ WalkNotFound \/ WalkExpand \/ WalkReturn \/ WalkFinish
    \/ GraphBuild \/ FormulaRender \/ FormulaRaise \/ ResourcesRender

SpecMain == InitMain /\ [][NextMain]_vars

-----------------------------------------------------------------------------
(* Properties of recursive_dependencies.                                   *)

\* the requirements declared by the installed distribution of r for r's extras
Declared(ws, r) ==
    IF ReqKey(r) \in DOMAIN ws
    THEN LET dm == ws[ReqKey(r)].dep_map
         IN  dm[""] \cup UNION {dm[e] : e \in r.extras}
    ELSE {}

RECURSIVE ReachFrom(_, _)
ReachFrom(ws, R) ==
    LET R2 == R \cup UNION {Declared(ws, r) : r \in R}
    IN  IF R2 = R THEN R ELSE ReachFrom(ws, R2)

\* the names of the requirements reachable from root
Closure(ws, root) == {Lower(r.project_name) : r \in ReachFrom(ws, {root})}

IsSortedSeq(s) == \A i, j \in DOMAIN s : i < j => Rank(s[i]) < Rank(s[j])

\* C1: recursive_dependencies(root) returns, sorted and without repetition,
\* exactly the lowercase names of the root and of every requirement reachable
\* from it through the declared requirements of installed packages; a
\* requirement that is not installed gives its name and is not expanded.
C1_Closure ==
    pc = "walked" =>
        /\ Range(pkg_deps) = Closure(working_set, package)
        /\ IsSortedSeq(pkg_deps)
        /\ (Declared(working_set, package) = {}
                => pkg_deps = <<Lower(package.project_name)>>)

\* a finished walk that met a requirement under an extra and one that is not installed
C1_Witness ==
    /\ pc = "walked"
    /\ Len(pkg_deps) >= 3
    /\ \E r \in visited : r.extras # {} /\ Declared(working_set, r) # {}
    /\ \E r \in visited : ReqKey(r) \notin DOMAIN working_set

\* an installed root without dependencies returned exactly its own name
C1_WitnessLeaf ==
    /\ pc = "walked"
    /\ ReqKey(package) \in DOMAIN working_set
    /\ pkg_deps = <<ReqKey(package)>>

ExpandedOnce ==
    \A i, j \in DOMAIN lookups :
        hashCmp(lookups[i].req) = hashCmp(lookups[j].req) => i = j

MarkedBeforeExpanded == \A i \in DOMAIN lookups : InVisited(lookups[i].req, visited)

\* C2: the walk terminates on every registry, cyclic ones included: every
\* requirement is marked visited when it is expanded, each distinct
\* requirement (name plus extras) is expanded at most once, the call stack
\* stays below the depth cap of the model, and the return is reached.
C2_Terminates ==
    /\ [](ExpandedOnce /\ MarkedBeforeExpanded /\ Len(stack) < MaxDepth)
    /\ <>(pc = "walked")

\* the walk returned on a registry where two packages require each other
C2_Witness ==
    /\ pc = "walked"
    /\ \E i, j \in DOMAIN lookups :
        /\ ReqKey(lookups[i].req) # ReqKey(lookups[j].req)
        /\ ReqKey(lookups[j].req) \in {ReqKey(q) : q \in Declared(working_set, lookups[i].req)}
        /\ ReqKey(lookups[i].req) \in {ReqKey(q) : q \in Declared(working_set, lookups[j].req)}

\* C10: a requirement for 'requests' is looked up with the extra 'security'
\* added to its own extras; every other requirement with exactly its own.
C10_ImplicitExtra ==
    \A i \in DOMAIN lookups :
        lookups[i].extras =
            IF ReqKey(lookups[i].req) = "requests"
            THEN lookups[i].req.extras \cup {"security"}
            ELSE lookups[i].req.extras

-----------------------------------------------------------------------------
(* Properties of research_package.                                         *)

Sdists == SelectSeq(pypi[research_call.name], LAMBDA d : d.package_type = "sdist")

\* the numeric value of a release with at most three numbers below 100
Weight(v) ==
    LET c == Release(v)
    IN  10000 * c[1] + (IF Len(c) >= 2 THEN 100 * c[2] ELSE 0)
                     + (IF Len(c) >= 3 THEN c[3] ELSE 0)

\* C7: when the index lists no sdist for the package, research_package
\* returns the placeholder with the given name, empty url and empty checksum,
\* emits one 'No sdist' warning, does not raise, and neither matches a
\* version, nor selects the latest, nor downloads for a checksum.
C7_NoSdist ==
    (pc = "researched" /\ Sdists = <<>>) =>
        /\ research_ret.raised = ""
        /\ research_ret.package.name = research_call.name
        /\ research_ret.package.url = EmptyUrl
        /\ research_ret.package.checksum = ""
        /\ Len(research_ret.warnings) = 1
        /\ research_ret.warnings[1].message = <<"No sdist found for", research_call.name>>
        /\ research_ret.calls = {}

\* the index listed only wheels and a version was asked for
C7_Witness ==
    /\ pc = "researched"
    /\ Sdists = <<>>
    /\ pypi[research_call.name] # <<>>
    /\ Truthy(research_call.version)

HasExact ==
    /\ Truthy(research_call.version)
    /\ \E i \in DOMAIN Sdists :
        Weight(Sdists[i].version) = Weight(research_call.version.value)

VersionNotFoundWarnings ==
    SelectSeq(research_ret.warnings,
              LAMBDA w : w.category = "PackageVersionNotFoundWarning")

\* C8: among the sdists research_package selects one of the desired version
\* when a version is given and one exists, and otherwise one whose version
\* is numerically maximal; it warns 'version not found' exactly when a
\* version was given and had no match.
C8_Selection ==
    (pc = "researched" /\ Sdists # <<>>) =>
        LET sel == research_ret.matching_distribution
        IN  /\ \E i \in DOMAIN Sdists : Sdists[i] = sel
            /\ research_ret.package.url = Url(sel.url.path, "")
            /\ HasExact => Weight(sel.version) = Weight(research_call.version.value)
            /\ ~HasExact => \A i \in DOMAIN Sdists :
                                Weight(Sdists[i].version) <= Weight(sel.version)
            /\ Len(VersionNotFoundWarnings) =
                    (IF Truthy(research_call.version) /\ ~HasExact THEN 1 ELSE 0)
            /\ Len(research_ret.warnings) = Len(VersionNotFoundWarnings)

\* 1.10 was selected as the newest of 1.0, 1.2 and 1.10 after a miss
C8_Witness ==
    /\ pc = "researched"
    /\ {Sdists[i].version : i \in DOMAIN Sdists} = {V1_0, V1_2, V1_10}
    /\ research_call.version = Str(V2_0)
    /\ research_ret.matching_distribution.version = V1_10
    /\ Len(research_ret.warnings) = 1

\* the sdist 1.0.0 was selected for the desired version 1.0
C8_WitnessExact ==
    /\ pc = "researched"
    /\ research_call.version = Str(V1_0)
    /\ research_ret.matching_distribution # None
    /\ research_ret.matching_distribution.version = V1_0_0
    /\ research_ret.warnings = <<>>

-----------------------------------------------------------------------------
(* Properties of merge_graphs.                                             *)

AllKeys == UNION {DictKeys(graphs[j]) : j \in DOMAIN graphs}

\* the node of x in the first graph that has x
FirstNode(x) ==
    LET j == CHOOSE i \in DOMAIN graphs :
                /\ x \in DictKeys(graphs[i])
                /\ \A h \in 1..(i - 1) : x \notin DictKeys(graphs[h])
    IN  DictGet(graphs[j], x)

\* a later graph holds for x a node that differs from the one recorded
Collisions ==
    {c \in (DOMAIN graphs) \X AllKeys :
        c[2] \in DictKeys(graphs[c[1]]) /\ DictGet(graphs[c[1]], c[2]) # FirstNode(c[2])}

\* C3: when a later graph holds a different node for a recorded name, the
\* merge completes without error, maps every name to the node of the first
\* graph that has it, and emits one conflicting-dependency warning, naming
\* both values, for each collision.
C3_KeepFirstAndWarn ==
    (pc = "merged" /\ Collisions # {}) =>
        /\ merge_ret.raised = ""
        /\ DictKeys(merge_ret.value) = AllKeys
        /\ \A x \in AllKeys : DictGet(merge_ret.value, x) = FirstNode(x)
        /\ Len(merge_ret.warnings) = Cardinality(Collisions)
        /\ \A i \in DOMAIN merge_ret.warnings :
            merge_ret.warnings[i].category = "ConflictingDependencyWarning"

\* s with a copy of x put in after position i
InsertAfter(s, i, x) == SubSeq(s, 1, i) \o <<x>> \o SubSeq(s, i + 1, Len(s))

\* C4: merge_graphs([A, A]) completes with exactly A's keys and A's nodes,
\* sorted by name, and no warning; and putting a second copy of a graph
\* anywhere after it in the input changes neither what merge_graphs returns
\* nor the warnings it emits.
C4_Idempotent ==
    pc = "merged" =>
        /\ (Len(graphs) = 2 /\ graphs[1] = graphs[2]) =>
            /\ merge_ret.raised = ""
            /\ merge_ret.warnings = <<>>
            /\ Len(merge_ret.value) = Len(graphs[1])
            /\ Range(merge_ret.value) = Range(graphs[1])
            /\ IsSortedSeq([i \in DOMAIN merge_ret.value |-> merge_ret.value[i][1]])
        /\ \A j \in DOMAIN graphs : \A i \in j..Len(graphs) :
            merge_graphs(InsertAfter(graphs, i, graphs[j])) = merge_ret

\* an unsorted graph of two nodes was merged with itself
C4_Witness ==
    /\ pc = "merged"
    /\ Len(graphs) = 2
    /\ graphs[1] = graphs[2]
    /\ Len(graphs[1]) = 2
    /\ graphs[1][1][1] = "foo"
    /\ merge_ret.raised = ""
    /\ merge_ret.value # graphs[1]

-----------------------------------------------------------------------------
(* Properties of main.                                                     *)

FormulaRoot == Lower(args.formula.value)

\* C5: the formula template receives as resources the node of every name of
\* the merged node set except the root's, compared without regard to case,
\* and the root's node as the package; resources_for renders every node of
\* the merged set.
C5_Resources ==
    /\ (pc = "exit" /\ mode = "formula" /\ exit_code = 0) =>
        /\ Len(stdout) = 1
        /\ stdout[1].template = "FORMULA"
        /\ stdout[1].package = DictGet(nodes, FormulaRoot)
        /\ Len(stdout[1].resources) = Len(nodes) - 1
        /\ {r.name : r \in Range(stdout[1].resources)} = DictKeys(nodes) \ {FormulaRoot}
        /\ \A r \in Range(stdout[1].resources) : r = DictGet(nodes, r.name)
    /\ (pc = "exit" /\ mode = "resources" /\ exit_code = 0) =>
        /\ Len(stdout) = Len(nodes)
        /\ \A i \in DOMAIN nodes :
            stdout[i] = [template |-> "RESOURCE", resource |-> nodes[i][2]]

\* the formula of Foo, which requires bar, was rendered with bar and without foo
C5_Witness ==
    /\ pc = "exit"
    /\ mode = "formula"
    /\ exit_code = 0
    /\ args.formula = Str("Foo")
    /\ Req("bar", {}) \in working_set["foo"].dep_map[""]
    /\ stdout[1].package.name = "foo"
    /\ "bar" \in {r.name : r \in Range(stdout[1].resources)}
    /\ "foo" \notin {r.name : r \in Range(stdout[1].resources)}

\* C6: once every graph of a formula run is merged, the root's lowercase
\* name is a key of the merged node set, and formula_for does not end in its
\* 'Could not find package' failure.
C6_RootInNodes ==
    (mode = "formula" /\ roots = <<>>) =>
        /\ pc = "graphs" => FormulaRoot \in DictKeys(nodes.result)
        /\ pc = "exit" => (exit_code = 0 /\ FormulaRoot \in DictKeys(nodes))

GroupConflict ==
    Cardinality({o \in {"single", "formula", "resources"} : args[o] # None}) >= 2

MainUsageError ==
    \/ (TruthyName(args.formula) \/ TruthyName(args.resources)) /\ TruthyName(args.package)
    \/ args.also # <<>> /\ args.single # None
    \/ /\ args.single = None
       /\ ~TruthyName(args.formula)
       /\ ~TruthyName(args.resources)
       /\ ~TruthyName(args.package)

C9_WitnessAlso ==
    /\ pc = "exit"
    /\ exit_code = 1
    /\ args.single # None
    /\ args.also # <<>>
    /\ ~args.version
    /\ stdout = <<>>

=============================================================================
